---------------------------- MODULE Spec2Model ----------------------------
(***************************************************************************)
(* aio-translator: the middleware wrappers of the translation capability.  *)
(*                                                                         *)
(*   RateLimiter   (crates/aio-translator/src/rate_limit.rs)               *)
(*   StyleTransfer (crates/aio-translator/src/style_transfer.rs)           *)
(*                                                                         *)
(* The rate limiter is a set of concurrent calls over a shared timestamp   *)
(* queue (tokio Mutex<VecDeque<Instant>>) and a counting semaphore, with a *)
(* discrete clock.  The style-transfer wrapper and its text functions are  *)
(* modelled over strings that are sequences of characters of a small       *)
(* alphabet carrying the properties the code reads (code point, general    *)
(* category, case, UTF-8 width).                                           *)
(***************************************************************************)
EXTENDS Integers, Sequences, FiniteSets, TLC

(***************************************************************************)
(* Bounds of the model.                                                    *)
(***************************************************************************)
\* number of concurrent calls made through one RateLimiter
NumCalls == 3
\* the clock runs over 0..MaxTime
MaxTime == 4
\* concurrent_limit is None or 1..MaxCap
MaxCap == 2
\* max_requests ranges over 0..MaxRequests
MaxRequests == 2
\* window ranges over 1..MaxWindow
MaxWindow == 2

None == <<>>
Some(x) == <<x>>
\* Option::unwrap
unwrap(o) == o[1]
\* usize::MAX, the value of max_requests when no window cap is configured
USIZE_MAX == "usize::MAX"

Calls == 1..NumCalls
Times == 0..MaxTime

VARIABLES
    \* ---- RateLimiter fields
    semaphore,      \* Option<Arc<Semaphore>>: None, or the permits available
    timestamps,     \* Option<Arc<Mutex<VecDeque<Instant>>>>: None, or the queue
    max_requests,   \* usize
    window,         \* Duration
    \* ---- construction argument kept for reference
    concurrent_limit,
    \* ---- tokio primitives and the clock
    mutex,          \* holder of the timestamp mutex, or None
    now,            \* Instant::now()
    \* ---- per call
    pc,             \* position of each call
    wakeAt,         \* deadline of tokio::time::sleep
    permit,         \* whether the call holds a SemaphorePermit
    r,              \* the local r: the delegate's outcome
    result,         \* what the call returned
    admitAt,        \* the instant the call pushed onto the queue
    startAt,        \* the instant the call invoked the delegate
    \* ---- one call through StyleTransfer<T>
    stKind,         \* the wrapped capability T
    stMethod,       \* "translate" or "translate_vec"
    stQuery,        \* query: a text (translate) or a list of texts (translate_vec)
    stFrom,         \* from: Option<Language>
    stTo,           \* to: Language
    stPc,           \* position of the call
    stInvoked,      \* how many times the wrapped capability was invoked
    stDelegate,     \* the outcome of the wrapped capability
    stResult,       \* what the call returned
    \* ---- one application of a text function
    fnName,         \* the function applied
    fnArg,          \* its arguments
    fnRet,          \* its result
    \* ---- JParaCrawlTranslator and its callers
    single_loaded,  \* bool
    loaded_models,  \* Arc<RwLock<HashMap<String, Translator>>>
    sequential,     \* whether the callers await each call before the next
    mPc,            \* position of each caller
    mCall,          \* the operation each caller called, and the model's name
    mResult,        \* what the call returned
    mLog,           \* the loads, unloads and loaded() calls in order of completion
    \* ---- MBart50Translator and its callers
    mbFrom,         \* from: Arc<Mutex<String>>, shared with MyTokenizer
    mbModel,        \* loaded_models: whether the model is resident
    mbPc,           \* position of each caller
    mbCall,         \* the source language and the number of queries of the call
    mbTokens,       \* the tokens encode has prepended for the call's queries
    mbResult        \* what the call returned

rlVars == <<semaphore, timestamps, max_requests, window, concurrent_limit,
            mutex, now, pc, wakeAt, permit, r, result, admitAt, startAt>>

stVars == <<stKind, stMethod, stQuery, stFrom, stTo, stPc, stInvoked, stDelegate,
            stResult>>

fnVars == <<fnName, fnArg, fnRet>>

mmVars == <<single_loaded, loaded_models, sequential, mPc, mCall, mResult, mLog>>

mbVars == <<mbFrom, mbModel, mbPc, mbCall, mbTokens, mbResult>>

vars == <<rlVars, stVars, fnVars, mmVars, mbVars>>

(***************************************************************************)
(* RateLimiter                                                             *)
(***************************************************************************)

\* The method each call invokes: odd calls translate, even calls translate_vec.
MethodOf(p) == IF p % 2 = 1 THEN "translate" ELSE "translate_vec"

\* the outcomes of the wrapped capability: anyhow::Result<TranslationOutput>
\* for translate, anyhow::Result<TranslationListOutput> for translate_vec
Outcomes(m) ==
    { [ok |-> TRUE,
       val |-> IF m = "translate" THEN "TranslationOutput" ELSE "TranslationListOutput"],
      [ok |-> FALSE, val |-> "error"] }

\* Duration::saturating_sub and Instant::duration_since (saturating)
saturating_sub(a, b) == IF a > b THEN a - b ELSE 0
duration_since(later, earlier) == saturating_sub(later, earlier)

ExpiredOrAtEdge(t, front, win) == duration_since(t, front) >= win
\* line 58: the front entry is older than the window
Expired(t, front, win) == duration_since(t, front) > win

\* lines 57-63: pop expired entries off the front
RECURSIVE Purge(_, _, _)
Purge(queue, t, win) ==
    IF queue # <<>> /\ Expired(t, Head(queue), win)
    THEN Purge(Tail(queue), t, win)
    ELSE queue

\* RateLimiter::new
RateLimiterNew(limit, cap) ==
    /\ concurrent_limit = limit
    /\ semaphore = limit
    /\ IF cap = None
       THEN /\ max_requests = USIZE_MAX
            /\ window = 0
            /\ timestamps = None
       ELSE /\ max_requests = unwrap(cap).n
            /\ window = unwrap(cap).d
            /\ timestamps = Some(<<>>)

InitRL ==
    /\ \E limit \in {None} \cup {Some(k) : k \in 1..MaxCap} :
       \E cap \in {None} \cup {Some(c) : c \in [n : 0..MaxRequests, d : 1..MaxWindow]} :
          RateLimiterNew(limit, cap)
    /\ mutex = None
    /\ now = 0
    /\ pc = [p \in Calls |-> "idle"]
    /\ wakeAt = [p \in Calls |-> None]
    /\ permit = [p \in Calls |-> FALSE]
    /\ r = [p \in Calls |-> None]
    /\ result = [p \in Calls |-> None]
    /\ admitAt = [p \in Calls |-> None]
    /\ startAt = [p \in Calls |-> None]

cfgVars == <<max_requests, window, concurrent_limit>>

\* the call enters acquire(): the window loop if configured, else the semaphore
Enter(p, m) ==
    /\ pc[p] = "idle"
    /\ MethodOf(p) = m
    /\ pc' = [pc EXCEPT ![p] = IF timestamps = None THEN "sem" ELSE "lock"]
    /\ UNCHANGED <<cfgVars, semaphore, timestamps, mutex, now, wakeAt, permit,
                   r, result, admitAt, startAt>>
    /\ UNCHANGED <<stVars, fnVars, mmVars, mbVars>>

translate(p) == Enter(p, "translate")

translate_vec(p) == Enter(p, "translate_vec")

\* line 54: timestamps.lock().await
LockQueue(p) ==
    /\ pc[p] = "lock"
    /\ mutex = None
    /\ mutex' = Some(p)
    /\ pc' = [pc EXCEPT ![p] = "window"]
    /\ UNCHANGED <<cfgVars, semaphore, timestamps, now, wakeAt, permit,
                   r, result, admitAt, startAt>>
    /\ UNCHANGED <<stVars, fnVars, mmVars, mbVars>>

push_front(queue, t) == <<t>> \o queue
push_twice(queue, t) == queue \o <<t, t>>
\* line 66: queue.push_back(now)
push_back(queue, t) == Append(queue, t)

keep_queue(holder) == holder
\* lines 68, 72 and 75: the MutexGuard goes out of scope at the break, is
\* dropped before the sleep, or is dropped at the end of the iteration
drop_queue(holder) == None

\* a cap that lets a call into an empty queue whatever max_requests is
has_room_or_empty(queue, max) == Len(queue) < max \/ queue = <<>>
\* line 65: queue.len() < self.max_requests
has_room(queue, max) == Len(queue) < max

\* lines 55-75: one iteration of the loop body, under the mutex
WindowStep(p) ==
    /\ pc[p] = "window"
    /\ mutex = Some(p)
    /\ LET queue == Purge(unwrap(timestamps), now, window) IN
       IF has_room(queue, max_requests)
       THEN /\ timestamps' = Some(push_back(queue, now))
            /\ admitAt' = [admitAt EXCEPT ![p] = Some(now)]
            /\ pc' = [pc EXCEPT ![p] = "sem"]
            /\ UNCHANGED wakeAt
       ELSE IF queue # <<>>
       THEN /\ timestamps' = Some(queue)
            /\ wakeAt' = [wakeAt EXCEPT ![p] =
                  Some(now + saturating_sub(window, duration_since(now, Head(queue))))]
            /\ pc' = [pc EXCEPT ![p] = "sleep"]
            /\ UNCHANGED admitAt
       ELSE /\ timestamps' = Some(queue)
            /\ pc' = [pc EXCEPT ![p] = "lock"]
            /\ UNCHANGED <<admitAt, wakeAt>>
    /\ mutex' = drop_queue(mutex)
    /\ UNCHANGED <<cfgVars, semaphore, now, permit, r, result, startAt>>
    /\ UNCHANGED <<stVars, fnVars, mmVars, mbVars>>

\* line 73: tokio::time::sleep(wait_time) completes, the loop retries
Wake(p) ==
    /\ pc[p] = "sleep"
    /\ now >= unwrap(wakeAt[p])
    /\ wakeAt' = [wakeAt EXCEPT ![p] = None]
    /\ pc' = [pc EXCEPT ![p] = "lock"]
    /\ UNCHANGED <<cfgVars, semaphore, timestamps, mutex, now, permit,
                   r, result, admitAt, startAt>>
    /\ UNCHANGED <<stVars, fnVars, mmVars, mbVars>>

PermitAlways(sem) == TRUE
\* line 79: sem.acquire() completes when a permit is available
PermitAvailable(sem) == IF sem = None THEN TRUE ELSE unwrap(sem) > 0

\* lines 78-84, then line 102/115: the permit is taken and the delegate invoked
AcquirePermit(p) ==
    /\ pc[p] = "sem"
    /\ PermitAvailable(semaphore)
    /\ IF semaphore = None
       THEN UNCHANGED <<semaphore, permit>>
       ELSE /\ semaphore' = Some(unwrap(semaphore) - 1)
            /\ permit' = [permit EXCEPT ![p] = TRUE]
    /\ startAt' = [startAt EXCEPT ![p] = Some(now)]
    /\ pc' = [pc EXCEPT ![p] = "delegate"]
    /\ UNCHANGED <<cfgVars, timestamps, mutex, now, wakeAt, r, result,
                   admitAt>>
    /\ UNCHANGED <<stVars, fnVars, mmVars, mbVars>>

\* line 102/115: the wrapped capability returns
DelegateReturn(p) ==
    /\ pc[p] = "delegate"
    /\ \E out \in Outcomes(MethodOf(p)) : r' = [r EXCEPT ![p] = Some(out)]
    /\ pc' = [pc EXCEPT ![p] = "drop"]
    /\ UNCHANGED <<cfgVars, semaphore, timestamps, mutex, now, wakeAt,
                   permit, result, admitAt, startAt>>
    /\ UNCHANGED <<stVars, fnVars, mmVars, mbVars>>

forget(sem, held) == sem
\* drop(permit): a held SemaphorePermit returns its unit to the pool
drop(sem, held) == IF held THEN Some(unwrap(sem) + 1) ELSE sem

ReturnOkOnly(out) == IF out.ok THEN out ELSE [ok |-> TRUE, val |-> ""]
\* line 104/117: the call returns r
Return(out) == out

\* lines 103-104 / 116-117
DropPermit(p) ==
    /\ pc[p] = "drop"
    /\ semaphore' = drop(semaphore, permit[p])
    /\ permit' = [permit EXCEPT ![p] = FALSE]
    /\ result' = [result EXCEPT ![p] = Some(Return(unwrap(r[p])))]
    /\ pc' = [pc EXCEPT ![p] = "done"]
    /\ UNCHANGED <<cfgVars, timestamps, mutex, now, wakeAt, r, admitAt,
                   startAt>>
    /\ UNCHANGED <<stVars, fnVars, mmVars, mbVars>>

\* Code that runs without suspending takes no time on the model's clock: the
\* loop body under the mutex (lines 55-72), sem.acquire() on an available
\* permit followed by the delegate call (lines 79, 102), and drop(permit)
\* followed by the return (lines 103-104).  Time passes while a call has not
\* started, waits for the mutex, sleeps, waits for a permit or is in the
\* delegate.
Urgent ==
    \E p \in Calls :
        \/ pc[p] \in {"window", "drop"}
        \/ pc[p] = "sem" /\ PermitAvailable(semaphore)

Tick ==
    /\ \E p \in Calls : pc[p] # "unused"
    /\ now < MaxTime
    /\ ~Urgent
    /\ now' = now + 1
    /\ UNCHANGED <<cfgVars, semaphore, timestamps, mutex, pc, wakeAt,
                   permit, r, result, admitAt, startAt>>
    /\ UNCHANGED <<stVars, fnVars, mmVars, mbVars>>

\* the RateLimiter is not part of the behaviour
UnusedRL ==
    /\ RateLimiterNew(None, None)
    /\ mutex = None
    /\ now = 0
    /\ pc = [p \in Calls |-> "unused"]
    /\ wakeAt = [p \in Calls |-> None]
    /\ permit = [p \in Calls |-> FALSE]
    /\ r = [p \in Calls |-> None]
    /\ result = [p \in Calls |-> None]
    /\ admitAt = [p \in Calls |-> None]
    /\ startAt = [p \in Calls |-> None]

NextRL ==
    \/ \E p \in Calls : translate(p)
    \/ \E p \in Calls : translate_vec(p)
    \/ \E p \in Calls : LockQueue(p)
    \/ \E p \in Calls : WindowStep(p)
    \/ \E p \in Calls : Wake(p)
    \/ \E p \in Calls : AcquirePermit(p)
    \/ \E p \in Calls : DelegateReturn(p)
    \/ \E p \in Calls : DropPermit(p)
    \/ Tick

\* the suspension points of a call: timestamps.lock().await (line 54),
\* tokio::time::sleep(..).await (line 73), semaphore.acquire().await (line 79)
\* and the delegate's .await (lines 102, 115)
SuspensionPoints == {"lock", "sleep", "sem", "delegate"}

retract_timestamp(queue, at) ==
    IF queue = None \/ at = None THEN queue
    ELSE Some(SelectSeq(unwrap(queue), LAMBDA ts : ts # unwrap(at)))
\* lines 65-84: nothing between the push and the return of acquire removes the
\* timestamp, and dropping the future runs no code that does
abandoned_timestamp(queue, at) == queue

\* The caller drops the future of translate / translate_vec at a suspension
\* point (a timeout around the call): the locals are dropped, a held
\* SemaphorePermit (line 100/113) returns its unit, a pending lock() or
\* acquire() leaves its wait queue.
Cancel(p) ==
    /\ pc[p] \in SuspensionPoints
    /\ pc' = [pc EXCEPT ![p] = "cancelled at " \o pc[p]]
    /\ semaphore' = drop(semaphore, permit[p])
    /\ permit' = [permit EXCEPT ![p] = FALSE]
    /\ timestamps' = abandoned_timestamp(timestamps, admitAt[p])
    /\ wakeAt' = [wakeAt EXCEPT ![p] = None]
    /\ UNCHANGED <<cfgVars, mutex, now, r, result, admitAt, startAt>>
    /\ UNCHANGED <<stVars, fnVars, mmVars, mbVars>>

\* Time beyond the model's horizon.  Only differences of instants are read
\* (lines 58 and 71), and an instant more than MaxWindow old is expired
\* whatever its age, so once the clock shows MaxTime > MaxWindow the passing
\* of a time unit is the move of every recorded instant one unit into the
\* past, those at 0 staying there.
earlier(at) == IF at = None THEN None ELSE Some(saturating_sub(unwrap(at), 1))

TickPastHorizon ==
    /\ \E p \in Calls : pc[p] # "unused"
    /\ now = MaxTime
    /\ ~Urgent
    /\ timestamps' =
          IF timestamps = None THEN None
          ELSE Some([i \in 1..Len(unwrap(timestamps)) |->
                        saturating_sub(unwrap(timestamps)[i], 1)])
    /\ wakeAt' = [p \in Calls |-> earlier(wakeAt[p])]
    /\ admitAt' = [p \in Calls |-> earlier(admitAt[p])]
    /\ startAt' = [p \in Calls |-> earlier(startAt[p])]
    /\ UNCHANGED <<cfgVars, semaphore, mutex, now, pc, permit, r, result>>
    /\ UNCHANGED <<stVars, fnVars, mmVars, mbVars>>

NextRLLive ==
    \/ NextRL
    \/ TickPastHorizon

\* the steps of one call that is under way
ProgressRL(p) ==
    \/ LockQueue(p)
    \/ WindowStep(p)
    \/ Wake(p)
    \/ AcquirePermit(p)
    \/ DelegateReturn(p)
    \/ DropPermit(p)

TimePasses == Tick \/ TickPastHorizon

\* The tokio Mutex and Semaphore serve their waiters in order, a task that
\* can run does run, and every call of the delegate returns: a call that can
\* take a step again and again takes one.  Time advances: it is not held back
\* forever by code that takes no time.
FairRL ==
    /\ \A p \in Calls : SF_vars(ProgressRL(p))
    /\ SF_vars(TimePasses)

NextRLCancel ==
    \/ NextRL
    \/ \E p \in Calls : Cancel(p)



(***************************************************************************)
(* Text: a string is a sequence of characters; a character is named by a   *)
(* string and carries its Unicode code point and general category.         *)
(*   NUL U+0000, TAB U+0009, LF U+000A, NBSP U+00A0, SHY U+00AD (soft      *)
(*   hyphen), SUP2 U+00B2, EURO U+20AC, LS U+2028 (line separator),        *)
(*   ROMAN8 U+2167, IDEO_STOP U+3002, HIRA_A U+3042.                       *)
(***************************************************************************)
CodePoint ==
    "a" :> 97 @@ "A" :> 65 @@ "b" :> 98 @@ "B" :> 66 @@ "c" :> 99 @@
    "C" :> 67 @@ "d" :> 100 @@ "D" :> 68 @@ "e" :> 101 @@ "E" :> 69 @@
    "h" :> 104 @@ "H" :> 72 @@ "l" :> 108 @@ "L" :> 76 @@ "o" :> 111 @@
    "O" :> 79 @@ "r" :> 114 @@ "R" :> 82 @@ "u" :> 117 @@ "U" :> 85 @@
    "w" :> 119 @@ "W" :> 87 @@ "y" :> 121 @@ "Y" :> 89 @@ " " :> 32 @@
    "." :> 46 @@ "," :> 44 @@ ";" :> 59 @@ "!" :> 33 @@ "?" :> 63 @@
    "-" :> 45 @@ "_" :> 95 @@ "$" :> 36 @@ "+" :> 43 @@ "1" :> 49 @@
    "NUL" :> 0 @@ "TAB" :> 9 @@ "LF" :> 10 @@ "NBSP" :> 160 @@
    "SHY" :> 173 @@ "SUP2" :> 178 @@ "EURO" :> 8364 @@ "LS" :> 8232 @@
    "ROMAN8" :> 8551 @@ "IDEO_STOP" :> 12290 @@ "HIRA_A" :> 12354

GeneralCategory ==
    "a" :> "Ll" @@ "A" :> "Lu" @@ "b" :> "Ll" @@ "B" :> "Lu" @@
    "c" :> "Ll" @@ "C" :> "Lu" @@ "d" :> "Ll" @@ "D" :> "Lu" @@
    "e" :> "Ll" @@ "E" :> "Lu" @@ "h" :> "Ll" @@ "H" :> "Lu" @@
    "l" :> "Ll" @@ "L" :> "Lu" @@ "o" :> "Ll" @@ "O" :> "Lu" @@
    "r" :> "Ll" @@ "R" :> "Lu" @@ "u" :> "Ll" @@ "U" :> "Lu" @@
    "w" :> "Ll" @@ "W" :> "Lu" @@ "y" :> "Ll" @@ "Y" :> "Lu" @@
    " " :> "Zs" @@ "." :> "Po" @@ "," :> "Po" @@ ";" :> "Po" @@
    "!" :> "Po" @@ "?" :> "Po" @@ "-" :> "Pd" @@ "_" :> "Pc" @@
    "$" :> "Sc" @@ "+" :> "Sm" @@ "1" :> "Nd" @@ "NUL" :> "Cc" @@
    "TAB" :> "Cc" @@ "LF" :> "Cc" @@ "NBSP" :> "Zs" @@ "SHY" :> "Cf" @@
    "SUP2" :> "No" @@ "EURO" :> "Sc" @@ "LS" :> "Zl" @@ "ROMAN8" :> "Nl" @@
    "IDEO_STOP" :> "Po" @@ "HIRA_A" :> "Lo"

\* char::to_lowercase of the characters that have one
LowerOf ==
    "A" :> "a" @@ "B" :> "b" @@ "C" :> "c" @@ "D" :> "d" @@ "E" :> "e" @@
    "H" :> "h" @@ "L" :> "l" @@ "O" :> "o" @@ "R" :> "r" @@ "U" :> "u" @@
    "W" :> "w" @@ "Y" :> "y"

Chars == DOMAIN CodePoint

\* the characters of a string: ss.chars().count()
chars_count(s) == Len(s)

\* the UTF-8 width of a character
len_utf8(c) ==
    IF CodePoint[c] < 128 THEN 1
    ELSE IF CodePoint[c] < 2048 THEN 2
    ELSE IF CodePoint[c] < 65536 THEN 3 ELSE 4

\* str::len(): the length in bytes
RECURSIVE len(_)
len(s) == IF s = <<>> THEN 0 ELSE len_utf8(Head(s)) + len(Tail(s))

\* char::is_uppercase
is_uppercase(c) == GeneralCategory[c] = "Lu"

\* char::to_lowercase and the first character of char::to_uppercase
to_lowercase_char(c) == IF c \in DOMAIN LowerOf THEN LowerOf[c] ELSE c
to_uppercase_char(c) ==
    IF \E u \in DOMAIN LowerOf : LowerOf[u] = c
    THEN CHOOSE u \in DOMAIN LowerOf : LowerOf[u] = c
    ELSE c

\* str::to_lowercase
to_lowercase(s) == [i \in 1..Len(s) |-> to_lowercase_char(s[i])]

\* all strings over an alphabet up to a length
Str(alphabet, n) == UNION {[1..k -> alphabet] : k \in 0..n}

RECURSIVE concat(_)
\* the concatenation of a sequence of strings
concat(ss) == IF ss = <<>> THEN <<>> ELSE Head(ss) \o concat(Tail(ss))

\* str::repeat
repeat(s, n) == concat([i \in 1..n |-> s])

(***************************************************************************)
(* is_valuable_text (style_transfer.rs 127-171)                            *)
(***************************************************************************)
is_whitespace(ch) ==
    IF ch \in {" ", "TAB", "LF", "CR"} \/ CodePoint[ch] = 0
    THEN TRUE
    ELSE GeneralCategory[ch] = "Zs"

is_punctuation(ch) ==
    LET cp == CodePoint[ch] IN
    IF \/ (cp >= 33 /\ cp <= 47)
       \/ (cp >= 58 /\ cp <= 64)
       \/ (cp >= 91 /\ cp <= 96)
       \/ (cp >= 123 /\ cp <= 126)
    THEN TRUE
    ELSE GeneralCategory[ch] \in {"Pe", "Pc", "Pd", "Pf", "Pi", "Ps", "Po"}

is_control(ch) ==
    IF ch \in {"TAB", "LF", "CR"}
    THEN FALSE
    ELSE GeneralCategory[ch] \in {"Cc", "Cf"}

\* char::is_numeric: the general categories Nd, Nl, No
is_numeric(ch) == GeneralCategory[ch] \in {"Nd", "Nl", "No"}

is_valuable_char_ignoring_numeric(ch) ==
    ~is_punctuation(ch) /\ ~is_control(ch) /\ ~is_whitespace(ch)
is_valuable_char(ch) ==
    ~is_punctuation(ch) /\ ~is_control(ch) /\ ~is_whitespace(ch) /\ ~is_numeric(ch)

is_valuable_text(text) == \E i \in 1..Len(text) : is_valuable_char(text[i])

(***************************************************************************)
(* clean_translation_output (style_transfer.rs 63-105)                     *)
(***************************************************************************)
\* the code points with the Unicode White_Space property: char::is_whitespace
\* (str::split_whitespace) and the regex class \s
WhiteSpaceCodePoints ==
    {9, 10, 11, 12, 13, 32, 133, 160, 5760, 8232, 8233, 8239, 8287, 12288}
        \cup (8192..8202)
char_is_whitespace(c) == CodePoint[c] \in WhiteSpaceCodePoints

\* the regex class \w: Alphabetic, Mark, Decimal_Number, Connector_Punctuation
is_word(c) ==
    GeneralCategory[c] \in
        {"Lu", "Ll", "Lt", "Lm", "Lo", "Nl", "Mn", "Mc", "Me", "Nd", "Pc"}

\* the regex class [.,;!?]
is_mark(c) == c \in {".", ",", ";", "!", "?"}

\* the length of the run of whitespace (\s+) that starts at s[i]
RECURSIVE SpaceRun(_, _)
SpaceRun(s, i) ==
    IF i <= Len(s) /\ char_is_whitespace(s[i]) THEN 1 + SpaceRun(s, i + 1) ELSE 0

\* the length of the run of non-whitespace that starts at s[i]
RECURSIVE WordRun(_, _)
WordRun(s, i) ==
    IF i <= Len(s) /\ ~char_is_whitespace(s[i]) THEN 1 + WordRun(s, i + 1) ELSE 0

\* the length of the run of dots (\.+) that starts at s[i]
RECURSIVE DotRun(_, _)
DotRun(s, i) ==
    IF i <= Len(s) /\ s[i] = "." THEN 1 + DotRun(s, i + 1) ELSE 0

\* str::split_whitespace, from s[i] on
RECURSIVE split_whitespace(_, _)
split_whitespace(s, i) ==
    LET from == i + SpaceRun(s, i)
        n == WordRun(s, from)
    IN  IF n = 0
        THEN <<>>
        ELSE <<SubSeq(s, from, from + n - 1)>> \o split_whitespace(s, from + n)

\* [&str]::join
RECURSIVE join(_, _)
join(words, sep) ==
    IF words = <<>> THEN <<>>
    ELSE IF Len(words) = 1 THEN words[1]
    ELSE words[1] \o sep \o join(Tail(words), sep)

\* line 64: trans.split_whitespace().collect::<Vec<_>>().join(" ")
collapse_whitespace(trans) == join(split_whitespace(trans, 1), <<" ">>)

\* lines 66-68: Regex ([^\.,;!?\s])([.,;!?])(?=\w), replace_all with "$1$2 ",
\* scanning for leftmost non-overlapping matches from s[i] on
RECURSIVE space_after_mark(_, _)
space_after_mark(s, i) ==
    IF i > Len(s) THEN <<>>
    ELSE IF /\ i + 2 <= Len(s)
            /\ ~is_mark(s[i]) /\ ~char_is_whitespace(s[i])
            /\ is_mark(s[i + 1])
            /\ is_word(s[i + 2])
    THEN <<s[i], s[i + 1], " ">> \o space_after_mark(s, i + 2)
    ELSE <<s[i]>> \o space_after_mark(s, i + 1)

\* lines 70-73: Regex ([.,;!?])\s+(?=[.,;!?]|$), replace_all with "$1"
RECURSIVE no_space_before_mark_or_end(_, _)
no_space_before_mark_or_end(s, i) ==
    IF i > Len(s) THEN <<>>
    ELSE LET n == SpaceRun(s, i + 1) IN
         IF /\ is_mark(s[i])
            /\ n >= 1
            /\ (i + n = Len(s) \/ (i + n < Len(s) /\ is_mark(s[i + n + 1])))
         THEN <<s[i]>> \o no_space_before_mark_or_end(s, i + n + 1)
         ELSE <<s[i]>> \o no_space_before_mark_or_end(s, i + 1)

\* lines 77-79: Regex ([.,;!?\w])\s+([.,;!?]), replace_all with "$1$2"
RECURSIVE tighten_mark(_, _)
tighten_mark(s, i) ==
    IF i > Len(s) THEN <<>>
    ELSE LET n == SpaceRun(s, i + 1) IN
         IF /\ (is_mark(s[i]) \/ is_word(s[i]))
            /\ n >= 1
            /\ i + n < Len(s)
            /\ is_mark(s[i + n + 1])
         THEN <<s[i], s[i + n + 1]>> \o tighten_mark(s, i + n + 2)
         ELSE <<s[i]>> \o tighten_mark(s, i + 1)

\* lines 81-84: Regex ((?:\s|^)\.+)\s+(?=\w), replace_all with "$1".
\* At s[i] the alternative \s is tried first (the dots start at i + 1), then
\* ^, which matches at the start of the text only (the dots start at i).
RECURSIVE no_space_after_dots(_, _)
no_space_after_dots(s, i) ==
    IF i > Len(s) THEN <<>>
    ELSE LET Matches(d) ==
                 \* the dots start at d: \.+ \s+ (?=\w)
                 LET dots == DotRun(s, d)
                     n == SpaceRun(s, d + dots)
                 IN  /\ dots >= 1
                     /\ n >= 1
                     /\ d + dots + n <= Len(s)
                     /\ is_word(s[d + dots + n])
             After(d) == d + DotRun(s, d) + SpaceRun(s, d + DotRun(s, d))
         IN  IF char_is_whitespace(s[i]) /\ Matches(i + 1)
             THEN SubSeq(s, i, i + DotRun(s, i + 1))
                      \o no_space_after_dots(s, After(i + 1))
             ELSE IF i = 1 /\ Matches(i)
             THEN SubSeq(s, i, i + DotRun(s, i) - 1)
                      \o no_space_after_dots(s, After(i))
             ELSE <<s[i]>> \o no_space_after_dots(s, i + 1)

\* lines 107-125: the minimal repeating unit
RECURSIVE repeating_sequence_from(_, _)
repeating_sequence_from(ss, i) ==
    LET length == Len(ss) IN
    IF i > length \div 2 THEN ss
    ELSE LET seq == SubSeq(ss, 1, i)
             repeats == length \div i
             remainder == length % i
             candidate == repeat(seq, repeats) \o SubSeq(seq, 1, remainder)
         IN  IF candidate = ss THEN seq ELSE repeating_sequence_from(ss, i + 1)

\* a search that starts at units of two characters
repeating_sequence_from_two(ss) == repeating_sequence_from(ss, 2)
repeating_sequence(ss) == repeating_sequence_from(ss, 1)

Max(a, b) == IF a >= b THEN a ELSE b
Min(a, b) == IF a <= b THEN a ELSE b

\* lines 91-98: query.chars().zip(trans_.chars()).map(..).collect()
recase(query, trans_) ==
    [j \in 1..Min(Len(query), Len(trans_)) |->
        IF is_uppercase(query[j]) THEN to_uppercase_char(trans_[j]) ELSE trans_[j]]

\* a condition that also holds when trans is as long as two units
is_degenerate_or_equal(query, trans, seq) ==
    len(seq) < len(query) /\ len(trans) \div 2 >= len(seq)

\* line 87: the condition of the repetition correction, in bytes
is_degenerate(query, trans, seq) ==
    len(seq) < len(query) /\ len(trans) \div 2 > len(seq)

\* the outcome of a panic, which is no text
PANIC == <<"panic">>

\* lines 87-99; the division of line 88 panics on a unit of no characters
fix_repetition(query, trans) ==
    LET seq == repeating_sequence(to_lowercase(trans)) IN
    IF is_degenerate(query, trans, seq)
    THEN IF chars_count(seq) = 0
         THEN PANIC
         ELSE recase(query,
                     repeat(seq, Max(1, chars_count(query) \div chars_count(seq))))
    ELSE trans

\* arabic_reshaper::arabic_reshape joins Arabic letters into presentation
\* forms and leaves every other character as it is; the model's alphabet has
\* no Arabic letter.
arabic_reshape(s) == s

Languages == {"English", "Japanese", "Arabic"}

\* lines 64-85: the whitespace and punctuation steps
normalize_punctuation(trans, to_lang) ==
    LET t1 == collapse_whitespace(trans)
        t2 == space_after_mark(t1, 1)
        t3 == no_space_before_mark_or_end(t2, 1)
    IN  IF to_lang # "Arabic"
        THEN no_space_after_dots(tighten_mark(t3, 1), 1)
        ELSE t3

\* lines 63-105
clean_translation_output(query, trans, to_lang) ==
    LET t5 == fix_repetition(query, normalize_punctuation(trans, to_lang))
    IN  IF to_lang = "Arabic" THEN arabic_reshape(t5) ELSE t5

(***************************************************************************)
(* StyleTransfer (style_transfer.rs 8-61) over a wrapped capability        *)
(***************************************************************************)
\* the largest batch handed to translate_vec, and returned by a capability
MaxBatch == 2

\* anyhow::Result of TranslationOutput / TranslationListOutput
Ok(text, lang) == [ok |-> TRUE, text |-> text, lang |-> lang, err |-> ""]
Err(e) == [ok |-> FALSE, text |-> <<>>, lang |-> None, err |-> e]

\* the query texts and the texts a capability answers with: empty, without
\* value, valuable, and valuable but in need of cleaning
QueryTexts == {<<>>, <<"b">>, <<"A", "b">>}
OutputTexts ==
    {<<>>, <<" ">>, <<"1", ".">>, <<"a">>, <<" ", "a">>, <<"a", " ", ".">>}
OutputLangs == {None, Some("Japanese")}

Batches(texts, n) == UNION {[1..k -> texts] : k \in 0..n}

Capabilities == {"NoneTranslator", "OriginalTranslator", "Backend"}

\* What the wrapped capability answers.  NoneTranslator (dummy/none/src/lib.rs)
\* and OriginalTranslator (dummy/original/src/lib.rs) are the code's; Backend
\* is any other capability: any text, any batch length, or a failure.
CapabilityOutcomes(kind, m, query) ==
    IF kind = "NoneTranslator"
    THEN {Ok(<<>>, None)}
    ELSE IF kind = "OriginalTranslator"
    THEN {Ok(query, None)}
    ELSE {Err("error")} \cup
         {Ok(text, lang) :
            text \in (IF m = "translate" THEN OutputTexts
                      ELSE Batches(OutputTexts, MaxBatch)),
            lang \in OutputLangs}

never_same_language(from, to) == FALSE
\* lines 24 and 44: from == Some(*to)
same_language(from, to) == from = Some(to)

\* a single-text path that answers the query for an output without value, as
\* the batch path does
normalize_single_keeping_query(query, trans, to) ==
    IF is_valuable_text(trans)
    THEN clean_translation_output(query, trans, to)
    ELSE query

\* lines 31-33: the single-text path
normalize_single(query, trans, to) ==
    IF is_valuable_text(trans)
    THEN clean_translation_output(query, trans, to)
    ELSE trans

\* a batch path that keeps an output without value, as the single-text path does
normalize_item_keeping_output(query, trans, to) ==
    IF is_valuable_text(trans)
    THEN clean_translation_output(query, trans, to)
    ELSE trans

\* lines 54-57: one item of the batch path
normalize_item(query, trans, to) ==
    IF is_valuable_text(trans)
    THEN clean_translation_output(query, trans, to)
    ELSE query

\* lines 51-58: query.iter().zip(trans.text).map(..).collect()
normalize_batch(query, text, to) ==
    [i \in 1..Min(Len(query), Len(text)) |-> normalize_item(query[i], text[i], to)]

InitStyle ==
    /\ stKind \in Capabilities
    /\ \/ stMethod = "translate" /\ stQuery \in QueryTexts
       \/ stMethod = "translate_vec" /\ stQuery \in Batches(QueryTexts, MaxBatch)
    /\ stFrom \in {None} \cup {Some(l) : l \in Languages}
    /\ stTo \in Languages
    /\ stPc = "init"
    /\ stInvoked = 0
    /\ stDelegate = None
    /\ stResult = None

\* StyleTransfer is not part of the behaviour
UnusedStyle ==
    /\ stKind = "NoneTranslator"
    /\ stMethod = ""
    /\ stQuery = <<>>
    /\ stFrom = None
    /\ stTo = "English"
    /\ stPc = "unused"
    /\ stInvoked = 0
    /\ stDelegate = None
    /\ stResult = None

stArgs == <<stKind, stMethod, stQuery, stFrom, stTo>>

\* lines 24-30 and 44-50: the short-circuit, or the call of the capability
StyleTransfer_call ==
    /\ stPc = "init"
    /\ IF same_language(stFrom, stTo)
       THEN /\ stResult' = Some(Ok(stQuery, stFrom))
            /\ stPc' = "done"
            /\ UNCHANGED stInvoked
       ELSE /\ stInvoked' = stInvoked + 1
            /\ stPc' = "delegate"
            /\ UNCHANGED stResult
    /\ UNCHANGED <<stArgs, stDelegate>>
    /\ UNCHANGED <<rlVars, fnVars, mmVars, mbVars>>

\* lines 30-34: the capability answers translate
StyleTransfer_translate ==
    /\ stPc = "delegate"
    /\ stMethod = "translate"
    /\ \E out \in CapabilityOutcomes(stKind, stMethod, stQuery) :
          /\ stDelegate' = Some(out)
          /\ stResult' = Some(IF out.ok
                              THEN Ok(normalize_single(stQuery, out.text, stTo), out.lang)
                              ELSE out)
    /\ stPc' = "done"
    /\ UNCHANGED <<stArgs, stInvoked>>
    /\ UNCHANGED <<rlVars, fnVars, mmVars, mbVars>>

\* lines 50-59: the capability answers translate_vec
StyleTransfer_translate_vec ==
    /\ stPc = "delegate"
    /\ stMethod = "translate_vec"
    /\ \E out \in CapabilityOutcomes(stKind, stMethod, stQuery) :
          /\ stDelegate' = Some(out)
          /\ stResult' = Some(IF out.ok
                              THEN Ok(normalize_batch(stQuery, out.text, stTo), out.lang)
                              ELSE out)
    /\ stPc' = "done"
    /\ UNCHANGED <<stArgs, stInvoked>>
    /\ UNCHANGED <<rlVars, fnVars, mmVars, mbVars>>

NextStyle ==
    \/ StyleTransfer_call
    \/ StyleTransfer_translate
    \/ StyleTransfer_translate_vec

(***************************************************************************)
(* The text functions applied to inputs drawn from bounded sets            *)
(***************************************************************************)
\* the texts is_valuable_text is applied to
MaxTextLen == 2
\* the queries clean_translation_output is applied to
MaxQueryLen == 3
\* the translations clean_translation_output is applied to: every text over
\* TransChars up to MaxTransLen, every text over RepeatChars up to MaxRepeatLen
MaxTransLen == 4
MaxRepeatLen == 6

ValuableChars ==
    {"a", "A", "HIRA_A", " ", "TAB", "LF", "NUL", "NBSP", ".", "-", "_", "$",
     "+", "1", "SUP2", "ROMAN8", "SHY", "LS", "EURO", "IDEO_STOP"}
QueryChars == {"A", "b"}
TransChars == {"a", " ", ".", ",", "-"}
RepeatChars == {"c", "D"}

UnusedFn ==
    /\ fnName = "unused"
    /\ fnArg = <<>>
    /\ fnRet = None

InitValuable ==
    /\ fnName = "is_valuable_text"
    /\ fnArg \in {<<text>> : text \in Str(ValuableChars, MaxTextLen)}
    /\ fnRet = None

InitClean ==
    /\ fnName = "clean_translation_output"
    /\ fnArg \in
         {<<query, trans, to_lang>> :
            query \in Str(QueryChars, MaxQueryLen),
            trans \in Str(TransChars, MaxTransLen) \cup Str(RepeatChars, MaxRepeatLen),
            to_lang \in {"English", "Arabic"}}
    /\ fnRet = None

\* repeating_sequence on every text over RepeatChars up to MaxRepeatLen
InitRepeat ==
    /\ fnName = "repeating_sequence"
    /\ fnArg \in {<<ss>> : ss \in Str(RepeatChars, MaxRepeatLen)}
    /\ fnRet = None

Apply_is_valuable_text ==
    /\ fnName = "is_valuable_text"
    /\ fnRet = None
    /\ fnRet' = Some(is_valuable_text(fnArg[1]))
    /\ UNCHANGED <<fnName, fnArg>>
    /\ UNCHANGED <<rlVars, stVars, mmVars, mbVars>>

Apply_clean_translation_output ==
    /\ fnName = "clean_translation_output"
    /\ fnRet = None
    /\ fnRet' = Some(clean_translation_output(fnArg[1], fnArg[2], fnArg[3]))
    /\ UNCHANGED <<fnName, fnArg>>
    /\ UNCHANGED <<rlVars, stVars, mmVars, mbVars>>

Apply_repeating_sequence ==
    /\ fnName = "repeating_sequence"
    /\ fnRet = None
    /\ fnRet' = Some(repeating_sequence(fnArg[1]))
    /\ UNCHANGED <<fnName, fnArg>>
    /\ UNCHANGED <<rlVars, stVars, mmVars, mbVars>>

(***************************************************************************)
(* The model manager of a locally hosted backend: JParaCrawlTranslator     *)
(* (offline/jparacrawl/src/lib.rs), its resident models behind a           *)
(* tokio::sync::RwLock.  A guard lives to the end of the statement that    *)
(* takes it: the read guard of translate_vec spans translate_batch, a write *)
(* guard spans one drain, insert or assignment.                            *)
(***************************************************************************)
\* concurrent callers of one JParaCrawlTranslator
NumTasks == 3
Tasks == 1..NumTasks

\* format!("{}-{}-{}", from, to, size), lines 118-127, for the size the
\* translator was built with
ModelNames == {"en-ja-base", "ja-en-base"}

\* the steps of custom_load that fail with ?: download_model (a download
\* failure or a hash mismatch, lines 162-170), the construction of the
\* tokenizer and of the translator (lines 173-186)
LoadErrors == {"download", "hash mismatch", "construction"}

contains_nothing(models, name) == FALSE
\* HashMap<String, Translator>: a set of <<key, instance>>, one per key; the
\* instance is named after the task that built it
contains_key(models, name) == \E e \in models : e[1] = name
keys(models) == {e[1] : e \in models}
insert_duplicate(models, name, v) == models \cup {<<name, v>>}
\* line 190: HashMap::insert replaces the value of the key
insert(models, name, v) == {e \in models : e[1] # name} \cup {<<name, v>>}
drain_nothing(models) == models
\* line 188: the Drain iterator is dropped at once, which removes every entry
drain(models) == {}
drained_on_failure(models) == {}
\* lines 162-186: a failing step returns before lines 187-190 are reached
after_failed_load(models) == models
\* lines 255-257
loaded(models) == Cardinality(models) > 0

NoCall == [op |-> "", name |-> "", from |-> None, to |-> ""]
LogEntry(op, name, ok, built) == [op |-> op, name |-> name, ok |-> ok, built |-> built]

\* JParaCrawlTranslator::new, lines 67-75
InitModels ==
    /\ single_loaded \in BOOLEAN
    /\ loaded_models = {}
    /\ sequential \in BOOLEAN
    /\ mPc = [t \in Tasks |-> "idle"]
    /\ mCall = [t \in Tasks |-> NoCall]
    /\ mResult = [t \in Tasks |-> None]
    /\ mLog = <<>>

\* the model manager is not part of the behaviour
UnusedModels ==
    /\ single_loaded = FALSE
    /\ loaded_models = {}
    /\ sequential = FALSE
    /\ mPc = [t \in Tasks |-> "unused"]
    /\ mCall = [t \in Tasks |-> NoCall]
    /\ mResult = [t \in Tasks |-> None]
    /\ mLog = <<>>

\* tokio::sync::RwLock: the tasks that hold a read guard across a call, and
\* the tasks that hold the write guard
read_leases == {t \in Tasks : mPc[t] = "translate_batch"}
write_lease == {t \in Tasks : mPc[t] \in {"draining", "inserting", "unloading"}}

granted_at_once == TRUE
\* RwLock::read().await returns while no write guard is held
may_read == write_lease = {}
\* RwLock::write().await returns while no guard is held
may_write == write_lease = {} /\ read_leases = {}

InFlight(t) == mPc[t] \notin {"idle", "done", "panicked", "unused"}

\* a caller that awaits each call before it makes the next one has no two
\* calls in flight
MayCall(t) ==
    /\ mPc[t] = "idle"
    /\ sequential => \A u \in Tasks : ~InFlight(u)

\* a direction check that takes a missing source language for English
eng_src_or_default(from, to) ==
    IF from \in {None, Some("English")} /\ to = "Japanese" THEN Some(TRUE)
    ELSE IF from = Some("Japanese") /\ to = "English" THEN Some(FALSE)
    ELSE None

\* lines 106-113: eng_src, or none when the match fails with
\* UnknownLanguageGroup
eng_src(from, to) ==
    IF from = Some("English") /\ to = "Japanese" THEN Some(TRUE)
    ELSE IF from = Some("Japanese") /\ to = "English" THEN Some(FALSE)
    ELSE None

\* lines 114-127, for Size::Base
model_name(en) == IF en THEN "en-ja-base" ELSE "ja-en-base"

\* lines 99-128: translate_vec (translate, lines 83-97, calls it with one
\* text): the language pair gives the model's name, or the call fails
JParaCrawl_translate_vec(t) ==
    /\ MayCall(t)
    /\ \E from \in {None} \cup {Some(l) : l \in Languages}, to \in Languages :
          LET e == eng_src(from, to) IN
          IF e # None
          THEN /\ mCall' = [mCall EXCEPT ![t] =
                               [op |-> "translate_vec", name |-> model_name(unwrap(e)),
                                from |-> from, to |-> to]]
               /\ mPc' = [mPc EXCEPT ![t] = "custom_load"]
               /\ UNCHANGED mResult
          ELSE /\ mCall' = [mCall EXCEPT ![t] =
                               [op |-> "translate_vec", name |-> "",
                                from |-> from, to |-> to]]
               /\ mPc' = [mPc EXCEPT ![t] = "done"]
               /\ mResult' = [mResult EXCEPT ![t] = Some("UnknownLanguageGroup")]
    /\ UNCHANGED <<single_loaded, loaded_models, sequential, mLog>>
    /\ UNCHANGED <<rlVars, stVars, fnVars, mbVars>>

\* sugoi/src/lib.rs lines 129-132: the pair is (Some(Japanese), English)
Sugoi_direction(from, to) == from = Some("Japanese") /\ to = "English"

\* sugoi/src/lib.rs lines 123-133: SugoiTranslator::translate_vec checks the
\* direction first.  The SugoiTranslator is another object: its own model is
\* not the resident set of the JParaCrawlTranslator.
Sugoi_translate_vec(t) ==
    /\ MayCall(t)
    /\ \E from \in {None} \cup {Some(l) : l \in Languages}, to \in Languages :
          /\ mCall' = [mCall EXCEPT ![t] =
                          [op |-> "Sugoi translate_vec", name |-> "",
                           from |-> from, to |-> to]]
          /\ IF Sugoi_direction(from, to)
             THEN /\ mPc' = [mPc EXCEPT ![t] = "Sugoi load"]
                  /\ UNCHANGED mResult
             ELSE /\ mPc' = [mPc EXCEPT ![t] = "done"]
                  /\ mResult' = [mResult EXCEPT ![t] = Some("UnknownLanguageGroup")]
    /\ UNCHANGED <<single_loaded, loaded_models, sequential, mLog>>
    /\ UNCHANGED <<rlVars, stVars, fnVars, mbVars>>

\* sugoi/src/lib.rs lines 134-155: pre_tokenize, load, translate_batch and
\* post_detokenize, each of which may fail
Sugoi_load(t) ==
    /\ mPc[t] = "Sugoi load"
    /\ \E out \in {"Ok", "error"} :
          mResult' = [mResult EXCEPT ![t] = Some(out)]
    /\ mPc' = [mPc EXCEPT ![t] = "done"]
    /\ UNCHANGED <<single_loaded, loaded_models, sequential, mCall, mLog>>
    /\ UNCHANGED <<rlVars, stVars, fnVars, mbVars>>

\* lines 159-161: the model is resident and custom_load returns, or it is not
custom_load(t) ==
    /\ mPc[t] = "custom_load"
    /\ may_read
    /\ IF contains_key(loaded_models, mCall[t].name)
       THEN /\ mPc' = [mPc EXCEPT ![t] = "lookup"]
            /\ mLog' = Append(mLog, LogEntry("load", mCall[t].name, TRUE, FALSE))
       ELSE /\ mPc' = [mPc EXCEPT ![t] = "build"]
            /\ UNCHANGED mLog
    /\ UNCHANGED <<single_loaded, loaded_models, sequential, mCall, mResult>>
    /\ UNCHANGED <<rlVars, stVars, fnVars, mbVars>>

\* lines 162-186: the downloads and the construction succeed
custom_load_built(t) ==
    /\ mPc[t] = "build"
    /\ mPc' = [mPc EXCEPT ![t] = IF single_loaded THEN "drain" ELSE "insert"]
    /\ UNCHANGED <<single_loaded, loaded_models, sequential, mCall, mResult, mLog>>
    /\ UNCHANGED <<rlVars, stVars, fnVars, mbVars>>

\* lines 162-186: a download or the construction fails, custom_load and
\* translate_vec return the error
custom_load_failed(t) ==
    /\ mPc[t] = "build"
    /\ \E e \in LoadErrors :
          mResult' = [mResult EXCEPT ![t] = Some(e)]
    /\ loaded_models' = after_failed_load(loaded_models)
    /\ mPc' = [mPc EXCEPT ![t] = "done"]
    /\ mLog' = Append(mLog, LogEntry("load", mCall[t].name, FALSE, FALSE))
    /\ UNCHANGED <<single_loaded, sequential, mCall>>
    /\ UNCHANGED <<rlVars, stVars, fnVars, mbVars>>

\* line 188: self.loaded_models.write().await
custom_load_drain_write(t) ==
    /\ mPc[t] = "drain"
    /\ may_write
    /\ mPc' = [mPc EXCEPT ![t] = "draining"]
    /\ UNCHANGED <<single_loaded, loaded_models, sequential, mCall, mResult, mLog>>
    /\ UNCHANGED <<rlVars, stVars, fnVars, mbVars>>

\* lines 187-189: .drain(); and the write guard is dropped
custom_load_drain(t) ==
    /\ mPc[t] = "draining"
    /\ loaded_models' = drain(loaded_models)
    /\ mPc' = [mPc EXCEPT ![t] = "insert"]
    /\ UNCHANGED <<single_loaded, sequential, mCall, mResult, mLog>>
    /\ UNCHANGED <<rlVars, stVars, fnVars, mbVars>>

\* line 190: self.loaded_models.write().await
custom_load_insert_write(t) ==
    /\ mPc[t] = "insert"
    /\ may_write
    /\ mPc' = [mPc EXCEPT ![t] = "inserting"]
    /\ UNCHANGED <<single_loaded, loaded_models, sequential, mCall, mResult, mLog>>
    /\ UNCHANGED <<rlVars, stVars, fnVars, mbVars>>

\* lines 190-191: .insert(name, v); the write guard is dropped; Ok(())
custom_load_insert(t) ==
    /\ mPc[t] = "inserting"
    /\ loaded_models' = insert(loaded_models, mCall[t].name, t)
    /\ mPc' = [mPc EXCEPT ![t] = "lookup"]
    /\ mLog' = Append(mLog, LogEntry("load", mCall[t].name, TRUE, TRUE))
    /\ UNCHANGED <<single_loaded, sequential, mCall, mResult>>
    /\ UNCHANGED <<rlVars, stVars, fnVars, mbVars>>

\* lines 129-133: read().await.get(&model_name).expect("loaded in function");
\* the read guard is held from here, or dropped by the panic
lookup(t) ==
    /\ mPc[t] = "lookup"
    /\ may_read
    /\ IF contains_key(loaded_models, mCall[t].name)
       THEN /\ mPc' = [mPc EXCEPT ![t] = "translate_batch"]
            /\ UNCHANGED mResult
       ELSE /\ mResult' = [mResult EXCEPT ![t] = Some("panic: loaded in function")]
            /\ mPc' = [mPc EXCEPT ![t] = "panicked"]
    /\ UNCHANGED <<single_loaded, loaded_models, sequential, mCall, mLog>>
    /\ UNCHANGED <<rlVars, stVars, fnVars, mbVars>>

\* lines 134-153: translate_batch returns, the read guard is dropped at the
\* end of the statement, the call returns the texts or the error
translate_batch(t) ==
    /\ mPc[t] = "translate_batch"
    /\ \E out \in {"Ok", "translate_batch"} :
          mResult' = [mResult EXCEPT ![t] = Some(out)]
    /\ mPc' = [mPc EXCEPT ![t] = "done"]
    /\ UNCHANGED <<single_loaded, loaded_models, sequential, mCall, mLog>>
    /\ UNCHANGED <<rlVars, stVars, fnVars, mbVars>>

\* line 247: unload() is called and self.loaded_models.write().await returns
unload(t) ==
    /\ MayCall(t)
    /\ may_write
    /\ mCall' = [mCall EXCEPT ![t] = [op |-> "unload", name |-> "", from |-> None, to |-> ""]]
    /\ mPc' = [mPc EXCEPT ![t] = "unloading"]
    /\ UNCHANGED <<single_loaded, loaded_models, sequential, mResult, mLog>>
    /\ UNCHANGED <<rlVars, stVars, fnVars, mbVars>>

\* lines 246-248: *guard = HashMap::new(); the write guard is dropped
unload_assign(t) ==
    /\ mPc[t] = "unloading"
    /\ loaded_models' = {}
    /\ mPc' = [mPc EXCEPT ![t] = "done"]
    /\ mLog' = Append(mLog, LogEntry("unload", "", TRUE, FALSE))
    /\ UNCHANGED <<single_loaded, sequential, mCall, mResult>>
    /\ UNCHANGED <<rlVars, stVars, fnVars, mbVars>>

\* lines 197-199 and 255-257: loaded_() / loaded()
loaded_(t) ==
    /\ MayCall(t)
    /\ may_read
    /\ mCall' = [mCall EXCEPT ![t] = [op |-> "loaded", name |-> "", from |-> None, to |-> ""]]
    /\ mResult' = [mResult EXCEPT ![t] =
                      Some(IF loaded(loaded_models) THEN "true" ELSE "false")]
    /\ mPc' = [mPc EXCEPT ![t] = "done"]
    /\ mLog' = Append(mLog, LogEntry("loaded", "", loaded(loaded_models), FALSE))
    /\ UNCHANGED <<single_loaded, loaded_models, sequential>>
    /\ UNCHANGED <<rlVars, stVars, fnVars, mbVars>>

NextModels ==
    \E t \in Tasks :
        \/ JParaCrawl_translate_vec(t)
        \/ Sugoi_translate_vec(t)
        \/ Sugoi_load(t)
        \/ custom_load(t)
        \/ custom_load_built(t)
        \/ custom_load_failed(t)
        \/ custom_load_drain_write(t)
        \/ custom_load_drain(t)
        \/ custom_load_insert_write(t)
        \/ custom_load_insert(t)
        \/ lookup(t)
        \/ translate_batch(t)
        \/ unload(t)
        \/ unload_assign(t)
        \/ loaded_(t)

(***************************************************************************)
(* MBart50Translator (offline/mbart50/src/lib.rs): the source language of  *)
(* a call goes to the tokenizer through the cell from, an                  *)
(* Arc<Mutex<String>> that the translator and its MyTokenizer share.       *)
(***************************************************************************)
\* the largest number of queries of one call
MBartBatch == 2

\* line 85: Language::to_mbart_50, the mBART-50 code of a language
to_mbart_50(l) == IF l = "English" THEN "en_XX" ELSE "ja_XX"

\* MBart50Translator::new, lines 46-53: from is Arc::default(), no model
InitMBart ==
    /\ mbFrom = ""
    /\ mbModel = FALSE
    /\ mbPc = [t \in Tasks |-> "idle"]
    /\ mbCall = [t \in Tasks |-> [from |-> None, n |-> 0]]
    /\ mbTokens = [t \in Tasks |-> <<>>]
    /\ mbResult = [t \in Tasks |-> None]

\* the MBart50Translator is not part of the behaviour
UnusedMBart ==
    /\ mbFrom = ""
    /\ mbModel = FALSE
    /\ mbPc = [t \in Tasks |-> "unused"]
    /\ mbCall = [t \in Tasks |-> [from |-> None, n |-> 0]]
    /\ mbTokens = [t \in Tasks |-> <<>>]
    /\ mbResult = [t \in Tasks |-> None]

\* lines 77-87: translate_vec (translate, lines 61-75, calls it with one
\* query) fails without a source language, else writes its code to the cell
MBart50_translate_vec(t) ==
    /\ mbPc[t] = "idle"
    /\ \E from \in {None} \cup {Some(l) : l \in {"English", "Japanese"}}, n \in 1..MBartBatch :
          /\ mbCall' = [mbCall EXCEPT ![t] = [from |-> from, n |-> n]]
          /\ IF from = None
             THEN /\ mbResult' = [mbResult EXCEPT ![t] = Some("NoLanguage")]
                  /\ mbPc' = [mbPc EXCEPT ![t] = "done"]
                  /\ UNCHANGED mbFrom
             ELSE /\ mbFrom' = to_mbart_50(unwrap(from))
                  /\ mbPc' = [mbPc EXCEPT ![t] = "load"]
                  /\ UNCHANGED mbResult
    /\ UNCHANGED <<mbModel, mbTokens>>
    /\ UNCHANGED <<rlVars, stVars, fnVars, mmVars>>

\* line 88: self.load().await? returns the resident model, or reload (lines
\* 114-138) downloads and constructs it, or fails
MBart50_load(t) ==
    /\ mbPc[t] = "load"
    /\ \/ /\ mbModel' = TRUE
          /\ mbPc' = [mbPc EXCEPT ![t] = "encode"]
          /\ UNCHANGED mbResult
       \/ /\ ~mbModel
          /\ mbResult' = [mbResult EXCEPT ![t] = Some("error")]
          /\ mbPc' = [mbPc EXCEPT ![t] = "done"]
          /\ UNCHANGED mbModel
    /\ UNCHANGED <<mbFrom, mbCall, mbTokens>>
    /\ UNCHANGED <<rlVars, stVars, fnVars, mmVars>>

\* lines 26-30, called for each query by translate_batch_with_target_prefix
\* (lines 89-102): the token prepended is the content of the cell; after the
\* last query the call returns (lines 103-106)
MyTokenizer_encode(t) ==
    /\ mbPc[t] = "encode"
    /\ mbTokens' = [mbTokens EXCEPT ![t] = Append(@, mbFrom)]
    /\ IF Len(mbTokens[t]) + 1 = mbCall[t].n
       THEN /\ mbPc' = [mbPc EXCEPT ![t] = "done"]
            /\ mbResult' = [mbResult EXCEPT ![t] = Some("Ok")]
       ELSE UNCHANGED <<mbPc, mbResult>>
    /\ UNCHANGED <<mbFrom, mbModel, mbCall>>
    /\ UNCHANGED <<rlVars, stVars, fnVars, mmVars>>

NextMBart ==
    \E t \in Tasks :
        \/ MBart50_translate_vec(t)
        \/ MBart50_load(t)
        \/ MyTokenizer_encode(t)

(***************************************************************************)
(* Specifications                                                          *)
(***************************************************************************)
\* concurrent calls through one RateLimiter
InitSpecRL == InitRL /\ UnusedStyle /\ UnusedFn /\ UnusedModels /\ UnusedMBart

SpecRL == InitSpecRL /\ [][NextRL]_vars

\* concurrent calls through one RateLimiter, some of them cancelled
SpecRLCancel == InitSpecRL /\ [][NextRLCancel]_vars

\* concurrent calls through one RateLimiter under fair scheduling, with time
\* that does not stop
InitSpecRLLive == InitSpecRL /\ (timestamps # None => max_requests >= 1)

SpecRLLive == InitSpecRLLive /\ [][NextRLLive]_vars /\ FairRL

\* one call through StyleTransfer
InitSpecStyle == UnusedRL /\ InitStyle /\ UnusedFn /\ UnusedModels /\ UnusedMBart

SpecStyle == InitSpecStyle /\ [][NextStyle]_vars

\* either wrapper
InitWrappers ==
    /\ \/ InitRL /\ UnusedStyle
       \/ UnusedRL /\ InitStyle
    /\ UnusedFn
    /\ UnusedModels
    /\ UnusedMBart

NextWrappers == NextRL \/ NextStyle

SpecWrappers == InitWrappers /\ [][NextWrappers]_vars

\* is_valuable_text on every text of the bound
InitSpecValuable == UnusedRL /\ UnusedStyle /\ InitValuable /\ UnusedModels /\ UnusedMBart

SpecValuable == InitSpecValuable /\ [][Apply_is_valuable_text]_vars

\* clean_translation_output on every query and translation of the bounds
InitSpecClean == UnusedRL /\ UnusedStyle /\ InitClean /\ UnusedModels /\ UnusedMBart

SpecClean == InitSpecClean /\ [][Apply_clean_translation_output]_vars

\* repeating_sequence on every text of the bounds
InitSpecRepeat == UnusedRL /\ UnusedStyle /\ InitRepeat /\ UnusedModels /\ UnusedMBart

SpecRepeat == InitSpecRepeat /\ [][Apply_repeating_sequence]_vars

\* concurrent callers of one JParaCrawlTranslator
InitSpecModels == UnusedRL /\ UnusedStyle /\ UnusedFn /\ InitModels /\ UnusedMBart

SpecModels == InitSpecModels /\ [][NextModels]_vars

\* concurrent callers of one MBart50Translator
InitSpecMBart == UnusedRL /\ UnusedStyle /\ UnusedFn /\ UnusedModels /\ InitMBart

SpecMBart == InitSpecMBart /\ [][NextMBart]_vars

Init ==
    \/ InitRL /\ UnusedStyle /\ UnusedFn /\ UnusedModels /\ UnusedMBart
    \/ UnusedRL /\ InitStyle /\ UnusedFn /\ UnusedModels /\ UnusedMBart
    \/ UnusedRL /\ UnusedStyle /\ InitValuable /\ UnusedModels /\ UnusedMBart
    \/ UnusedRL /\ UnusedStyle /\ InitClean /\ UnusedModels /\ UnusedMBart
    \/ UnusedRL /\ UnusedStyle /\ InitRepeat /\ UnusedModels /\ UnusedMBart
    \/ UnusedRL /\ UnusedStyle /\ UnusedFn /\ InitModels /\ UnusedMBart
    \/ UnusedRL /\ UnusedStyle /\ UnusedFn /\ UnusedModels /\ InitMBart

Next ==
    \/ NextRL
    \/ NextStyle
    \/ Apply_is_valuable_text
    \/ Apply_clean_translation_output
    \/ Apply_repeating_sequence
    \/ NextModels
    \/ NextMBart
    \/ \E p \in Calls : Cancel(p)
    \/ TickPastHorizon

Spec == Init /\ [][Next]_vars

(***************************************************************************)
(* Properties of the RateLimiter                                           *)
(***************************************************************************)

\* calls between "permit acquired" and "permit dropped"
Holding == {p \in Calls : pc[p] \in {"delegate", "drop"}}
\* calls executing the wrapped delegate
InDelegate == {p \in Calls : pc[p] = "delegate"}
Admitted == {p \in Calls : admitAt[p] # None}
Started == {p \in Calls : startAt[p] # None}
AdmittedIn(a, b) == {p \in Admitted : a <= unwrap(admitAt[p]) /\ unwrap(admitAt[p]) <= b}
StartedIn(a, b) == {p \in Started : a <= unwrap(startAt[p]) /\ unwrap(startAt[p]) <= b}

\* C1: with concurrency_cap = Some(k), in every reachable state at most k
\* calls are between permit acquired and permit dropped, hence at most k
\* calls execute the wrapped delegate at the same time.
C1_ConcurrencyCap ==
    concurrent_limit # None =>
        /\ Cardinality(Holding) <= unwrap(concurrent_limit)
        /\ Cardinality(InDelegate) <= unwrap(concurrent_limit)

\* C1 witness: the cap is reached while another call waits for a permit.
C1_Witness ==
    /\ concurrent_limit # None
    /\ Cardinality(InDelegate) = unwrap(concurrent_limit)
    /\ \E q \in Calls : pc[q] = "sem"

\* C2: with window_cap = Some((m, w)), every closed time interval of length
\* w contains at most m admission timestamps, across all callers; two
\* admissions exactly w apart count as lying in one interval.
C2_WindowCap ==
    timestamps # None =>
        \A a \in Times : Cardinality(AdmittedIn(a, a + window)) <= max_requests

\* C2 witness: more calls than max_requests were admitted, one of them just
\* after the window of an earlier admission closed.
C2_Witness ==
    /\ timestamps # None
    /\ max_requests >= 1
    /\ Cardinality(Admitted) > max_requests
    /\ \E p, q \in Admitted : unwrap(admitAt[q]) = unwrap(admitAt[p]) + window + 1

\* C3: with window_cap = Some((m, w)), the number of delegate invocations
\* started within any interval of length w is at most m, also when admitted
\* callers first queue for a concurrency permit.
C3_DelegateStartsWithinWindow ==
    timestamps # None =>
        \A a \in Times : Cardinality(StartedIn(a, a + window)) <= max_requests

\* C4: the permit is released after the delegate returns, on success and on
\* failure, before the call returns: permits available plus calls holding a
\* permit equals concurrency_cap in every state, only calls between the
\* acquire and the drop hold one, and with no call in flight all permits are
\* available.
C4_PermitConservation ==
    /\ concurrent_limit # None =>
         /\ unwrap(semaphore) + Cardinality({p \in Calls : permit[p]})
               = unwrap(concurrent_limit)
         /\ \A p \in Calls : permit[p] <=> p \in Holding
    /\ \A p \in Calls : pc[p] = "done" => ~permit[p] /\ result[p] # None
    /\ (\A p \in Calls : pc[p] \in {"idle", "done"}) => semaphore = concurrent_limit

\* C4 witness: every call has returned, one of them with the delegate's
\* failure, and the pool is full again.
C4_Witness ==
    /\ concurrent_limit # None
    /\ \A p \in Calls : pc[p] = "done"
    /\ \E p \in Calls : ~unwrap(result[p]).ok
    /\ \E p \in Calls : unwrap(result[p]).ok
    /\ semaphore = concurrent_limit


(***************************************************************************)
(* Properties of the wrappers and of the text functions                    *)
(***************************************************************************)

\* C5: both wrappers are transparent to the delegate's outcome.  A call
\* through the RateLimiter returns exactly what the delegate returned, a
\* success or a failure, and no outcome of its own; a call through
\* StyleTransfer whose delegate failed returns that failure, not the input
\* text nor any normalized value.
C5_Transparent ==
    /\ \A p \in Calls :
          pc[p] = "done" =>
              /\ r[p] # None
              /\ result[p] = r[p]
              /\ unwrap(result[p]) \in Outcomes(MethodOf(p))
    /\ (stPc = "done" /\ stDelegate # None /\ ~unwrap(stDelegate).ok) =>
          stResult = stDelegate

\* C5 witness: a call through the RateLimiter that held a permit has
\* returned the delegate's failure.
C5_Witness ==
    \E p \in Calls :
        /\ pc[p] = "done"
        /\ concurrent_limit # None
        /\ timestamps # None
        /\ ~unwrap(r[p]).ok
        /\ ~unwrap(result[p]).ok

\* C6: identity law.  When from = Some(L) and to = L, translate and
\* translate_vec return the input (every item, in order) unchanged with
\* lang = Some(L), and the wrapped capability is never invoked.
C6_IdentityLaw ==
    stFrom = Some(stTo) =>
        /\ stInvoked = 0
        /\ stDelegate = None
        /\ stPc # "delegate"
        /\ stPc = "done" => stResult = Some(Ok(stQuery, Some(stTo)))

\* C6 witness: a batch of two texts came back through the short-circuit.
C6_Witness ==
    /\ stPc = "done"
    /\ stFrom = Some(stTo)
    /\ stMethod = "translate_vec"
    /\ Len(stQuery) = 2
    /\ stQuery[1] # stQuery[2]
    /\ unwrap(stResult).text = stQuery

\* C7: a batch call through StyleTransfer::translate_vec fails as a whole
\* or returns exactly one output per input, whatever the wrapped capability
\* returns (NoneTranslator returns an empty list).
C7_BatchAllOrNothing ==
    (stPc = "done" /\ stMethod = "translate_vec") =>
        \/ ~unwrap(stResult).ok
        \/ Len(unwrap(stResult).text) = Len(stQuery)

\* C8: in translate_vec with from # Some(to), at every position i the
\* delegate answered: result i is query i verbatim when output i is not
\* valuable, and clean_translation_output(query i, output i, to) otherwise.
C8_BatchFallback ==
    (/\ stPc = "done"
     /\ stMethod = "translate_vec"
     /\ stFrom # Some(stTo)
     /\ unwrap(stDelegate).ok) =>
        LET out == unwrap(stDelegate).text
            res == unwrap(stResult).text
        IN  \A i \in 1..Min(Len(stQuery), Len(out)) :
                /\ i <= Len(res)
                /\ res[i] = IF is_valuable_text(out[i])
                            THEN clean_translation_output(stQuery[i], out[i], stTo)
                            ELSE stQuery[i]

\* C8 witness: a batch of two where one output without value was replaced
\* by its query and one valuable output was cleaned.
C8_Witness ==
    /\ stPc = "done"
    /\ stMethod = "translate_vec"
    /\ stFrom # Some(stTo)
    /\ stDelegate # None
    /\ unwrap(stDelegate).ok
    /\ LET out == unwrap(stDelegate).text
           res == unwrap(stResult).text
       IN  /\ Len(out) = 2 /\ Len(res) = 2
           /\ \E i, j \in 1..2 :
                 /\ ~is_valuable_text(out[i]) /\ out[i] # <<>>
                 /\ stQuery[i] # <<>>
                 /\ res[i] = stQuery[i] /\ res[i] # out[i]
                 /\ is_valuable_text(out[j])
                 /\ res[j] # out[j] /\ res[j] # stQuery[j]

\* the classes of characters the claim names, by code point and general
\* category: letters (L*), punctuation (P* and the ASCII punctuation
\* characters), digits and other numerics (N*), whitespace (space, tab, line
\* feed, carriage return, NUL and the space separators Zs), control and format
\* characters (Cc, Cf)
IsLetter(c) == GeneralCategory[c] \in {"Lu", "Ll", "Lt", "Lm", "Lo"}
IsPunctuationChar(c) ==
    \/ GeneralCategory[c] \in {"Pc", "Pd", "Ps", "Pe", "Pi", "Pf", "Po"}
    \/ CodePoint[c] \in (33..47) \cup (58..64) \cup (91..96) \cup (123..126)
IsDigitChar(c) == GeneralCategory[c] \in {"Nd", "Nl", "No"}
IsWhitespaceChar(c) ==
    CodePoint[c] \in {0, 9, 10, 13, 32} \/ GeneralCategory[c] = "Zs"
IsControlChar(c) == GeneralCategory[c] \in {"Cc", "Cf"}
WithoutValue(c) ==
    IsPunctuationChar(c) \/ IsDigitChar(c) \/ IsWhitespaceChar(c) \/ IsControlChar(c)

CleanedText == normalize_punctuation(fnArg[2], fnArg[3])
RepeatingUnit == repeating_sequence(to_lowercase(CleanedText))
CorrectionFires == is_degenerate(fnArg[1], CleanedText, RepeatingUnit)

\* C10: when the repetition correction fires, the result has as many
\* characters as the query, whatever the query's length, and character j of
\* the result is unit[j mod |unit|], upper-cased exactly when character j of
\* the query is upper-case.
C10_RetileToQueryLength ==
    (fnName = "clean_translation_output" /\ fnRet # None /\ CorrectionFires) =>
        LET query == fnArg[1]
            out == unwrap(fnRet)
            unit == RepeatingUnit
        IN  /\ Len(out) = Len(query)
            /\ \A j \in 1..Len(query) :
                  /\ j <= Len(out)
                  /\ out[j] = LET u == unit[((j - 1) % Len(unit)) + 1]
                              IN  IF is_uppercase(query[j])
                                  THEN to_uppercase_char(u)
                                  ELSE u

\* C11: the repetition correction fires exactly when the minimal repeating
\* unit is shorter than the query and the cleaned text is more than twice as
\* long as the unit, odd cleaned lengths such as 2 * unit + 1 included.
C11_FiresExactlyWhen ==
    (fnName = "clean_translation_output" /\ fnRet # None) =>
        (CorrectionFires <=>
            /\ len(RepeatingUnit) < len(fnArg[1])
            /\ len(CleanedText) > 2 * len(RepeatingUnit))

\* C12: clean_translation_output is idempotent on its own output when the
\* repetition correction does not fire: cleaning the result again, for the
\* same query and a target language other than Arabic, gives the result.
C12_Idempotent ==
    (/\ fnName = "clean_translation_output"
     /\ fnRet # None
     /\ fnArg[3] # "Arabic"
     /\ ~CorrectionFires) =>
        clean_translation_output(fnArg[1], unwrap(fnRet), fnArg[3]) = unwrap(fnRet)

\* the text with one space after every mark that is directly followed by a
\* word character and not directly preceded by another mark
RECURSIVE SpacedAfterMarks(_, _)
SpacedAfterMarks(s, i) ==
    IF i > Len(s) THEN <<>>
    ELSE IF /\ is_mark(s[i])
            /\ i < Len(s) /\ is_word(s[i + 1])
            /\ (i = 1 \/ ~is_mark(s[i - 1]))
         THEN <<s[i], " ">> \o SpacedAfterMarks(s, i + 1)
         ELSE <<s[i]>> \o SpacedAfterMarks(s, i + 1)

\* C13: step 2 of clean_translation_output, applied to the text with its
\* whitespace collapsed, inserts one space after every mark of . , ; ! ? that
\* is directly followed by a word character and not directly preceded by
\* another mark, a mark at the start of the text and a mark after whitespace
\* included.
C13_SpaceAfterEveryMark ==
    (fnName = "clean_translation_output" /\ fnRet # None) =>
        LET t1 == collapse_whitespace(fnArg[2])
        IN  space_after_mark(t1, 1) = SpacedAfterMarks(t1, 1)

(***************************************************************************)
(* Properties of the model manager                                         *)
(***************************************************************************)

\* the callers that have made their call
Callers == {t \in Tasks : mPc[t] # "idle"}
\* every caller asked for a translation and its load has completed
AllLoadsComplete ==
    /\ Cardinality(Callers) >= 2
    /\ \A t \in Callers :
          /\ mCall[t].op = "translate_vec" /\ mCall[t].name \in ModelNames
          /\ mPc[t] \in {"lookup", "translate_batch", "done", "panicked"}
    /\ Len(mLog) = Cardinality(Callers)
    /\ \A i \in 1..Len(mLog) : mLog[i].op = "load" /\ mLog[i].ok

\* C14: with calls that do not overlap, after a load of variant A and then a
\* load of variant B, and before any further call, loaded() is true; in single-loaded mode the resident set
\* is exactly {B}, in multi-resident mode it holds both A and B.
C14_SequentialLoads ==
    (sequential /\ Len(mLog) >= 2) =>
        \A n \in 2..Len(mLog) :
            LET a == mLog[n - 1]
                b == mLog[n]
            IN  (a.op = "load" /\ a.ok /\ b.op = "load" /\ b.ok) =>
                   /\ (n = Len(mLog) /\ \A u \in Tasks : ~InFlight(u)) =>
                         /\ loaded(loaded_models)
                         /\ single_loaded => keys(loaded_models) = {b.name}
                         /\ ~single_loaded => {a.name, b.name} \subseteq keys(loaded_models)
                   /\ (n < Len(mLog) /\ mLog[n + 1].op = "loaded") => mLog[n + 1].ok

\* C14 witness: in single-loaded mode A and then B were built one after the
\* other, loaded() answered true and only B is resident.
C14_Witness ==
    /\ sequential
    /\ single_loaded
    /\ Len(mLog) = 3
    /\ mLog[1].op = "load" /\ mLog[1].built
    /\ mLog[2].op = "load" /\ mLog[2].built
    /\ mLog[1].name # mLog[2].name
    /\ mLog[3].op = "loaded" /\ mLog[3].ok
    /\ keys(loaded_models) = {mLog[2].name}

\* C15: in single-loaded mode the resident set never holds more than one
\* model, whatever the interleaving of concurrent loads of different variants.
C15_AtMostOneResident ==
    single_loaded => Cardinality(loaded_models) <= 1

\* C16: a load attempt that fails, at a download, at the hash check or at the
\* construction, changes the resident set at no step of the call, in either
\* mode.
C16_FailedLoadLeavesResidents ==
    [][\A t \in Tasks :
          (\/ mPc[t] = "idle" /\ mPc'[t] = "custom_load"
           \/ mPc[t] = "custom_load" /\ mPc'[t] = "build"
           \/ mPc[t] = "build" /\ mPc'[t] = "done") =>
              loaded_models' = loaded_models]_vars

\* C16 witness: with another model resident, a load failed, the resident
\* model stayed, and a later load of the same variant succeeded.
C16_Witness ==
    /\ Len(mLog) = 3
    /\ mLog[1].op = "load" /\ mLog[1].built
    /\ mLog[2].op = "load" /\ ~mLog[2].ok
    /\ mLog[3].op = "load" /\ mLog[3].built
    /\ mLog[2].name = mLog[3].name
    /\ mLog[1].name # mLog[2].name
    /\ \E t \in Tasks : mResult[t] = Some("hash mismatch")
    /\ keys(loaded_models) = {mLog[1].name, mLog[3].name}

\* C17: a call whose load step succeeded finds its model at the lookup: the
\* expect("loaded in function") never fires, whatever the other tasks do
\* between the load and the lookup.
C17_LookupFindsModel ==
    \A t \in Tasks : mPc[t] # "panicked"

\* C18: when several callers request the same variant concurrently and all
\* their loads complete, the resident set holds exactly one instance of that
\* variant, and in single-loaded mode exactly one resident in total.
C18_SameVariantConverges ==
    (AllLoadsComplete /\ \A t, u \in Callers : mCall[t].name = mCall[u].name) =>
        \A t \in Callers :
            /\ Cardinality({e \in loaded_models : e[1] = mCall[t].name}) = 1
            /\ single_loaded => Cardinality(loaded_models) = 1

\* C18 witness: three callers of one variant, two of which built and inserted
\* the model.
C18_Witness ==
    /\ AllLoadsComplete
    /\ Callers = Tasks
    /\ \A t, u \in Tasks : mCall[t].name = mCall[u].name
    /\ Cardinality({i \in 1..Len(mLog) : mLog[i].built}) >= 2
    /\ Cardinality(loaded_models) = 1

\* C19: when callers request different variants concurrently in single-loaded
\* mode and all loads complete, the resident set is exactly the variant of the
\* load that finished last.
C19_LastFinishedWins ==
    (/\ single_loaded
     /\ AllLoadsComplete
     /\ \E t, u \in Callers : mCall[t].name # mCall[u].name) =>
        keys(loaded_models) = {mLog[Len(mLog)].name}

\* C20: in RateLimiter::acquire the window step is complete before the permit
\* is requested; a caller sleeping for the window holds neither the queue
\* mutex nor a permit; the mutex is not held while the delegate runs: only a
\* caller inside the window step holds it.
C20_MutexOnlyInWindowStep ==
    \A p \in Calls :
        /\ (timestamps # None /\ pc[p] \in {"sem", "delegate", "drop", "done"}) =>
              admitAt[p] # None
        /\ pc[p] \in {"lock", "window", "sleep"} => ~permit[p]
        /\ pc[p] = "sleep" => mutex # Some(p)
        /\ pc[p] \in {"delegate", "drop"} => mutex # Some(p)
        /\ mutex = Some(p) => pc[p] = "window"

\* C20 witness: one caller runs the delegate with a permit, one sleeps for
\* the window, and a third holds the queue mutex.
C20_Witness ==
    \E p, q, s \in Calls :
        /\ pc[p] = "delegate" /\ permit[p]
        /\ pc[q] = "sleep"
        /\ pc[s] = "window" /\ mutex = Some(s)

(***************************************************************************)
(* Further properties of the RateLimiter                                   *)
(***************************************************************************)

InQueue(ts) == \E i \in 1..Len(unwrap(timestamps)) : unwrap(timestamps)[i] = ts

\* C21: a call cancelled while it waits for a concurrency permit, after its
\* timestamp was pushed, leaves the timestamp in the queue until it expires,
\* never invokes the delegate, and neither holds nor leaks a permit.
C21_CancelledKeepsTimestamp ==
    /\ \A p \in Calls :
          pc[p] = "cancelled at sem" =>
              /\ timestamps # None =>
                    /\ admitAt[p] # None
                    /\ \/ InQueue(unwrap(admitAt[p]))
                       \/ duration_since(now, unwrap(admitAt[p])) > window
              /\ startAt[p] = None
              /\ r[p] = None
              /\ result[p] = None
              /\ ~permit[p]
    /\ concurrent_limit # None =>
          /\ unwrap(semaphore) + Cardinality({p \in Calls : permit[p]})
                = unwrap(concurrent_limit)
          /\ \A p \in Calls : permit[p] => pc[p] \in {"delegate", "drop"}

\* C21 witness: the timestamp of a call cancelled at the permit wait fills
\* the window, and another caller sleeps because of it.
C21_Witness ==
    \E p, q \in Calls :
        /\ pc[p] = "cancelled at sem"
        /\ concurrent_limit # None
        /\ timestamps # None
        /\ unwrap(timestamps) = <<unwrap(admitAt[p])>>
        /\ max_requests = 1
        /\ pc[q] = "sleep"

IsSuffix(a, b) == Len(a) <= Len(b) /\ a = SubSeq(b, Len(b) - Len(a) + 1, Len(b))

\* with max_requests >= 1 the queue is ordered oldest-first and no longer
\* than max_requests
QueueOrderedAndBounded ==
    (timestamps # None /\ max_requests >= 1) =>
        LET queue == unwrap(timestamps) IN
        /\ \A i, j \in 1..Len(queue) : i <= j => queue[i] <= queue[j]
        /\ Len(queue) <= max_requests

\* entries leave the queue only from the front, and only in the window step
\* of acquire: what stays is a suffix of the queue, with at most the new
\* timestamp behind it
QueueShrinksOnlyByPurge ==
    timestamps # None =>
        LET queue == unwrap(timestamps)
            after == unwrap(timestamps')
        IN  \/ after = queue
            \/ /\ \E p \in Calls : pc[p] = "window" /\ pc'[p] # "window"
               /\ \/ IsSuffix(after, queue)
                  \/ /\ after # <<>>
                     /\ IsSuffix(SubSeq(after, 1, Len(after) - 1), queue)
                     /\ after[Len(after)] = now

\* C22: with a window cap (m, w), m >= 1, the timestamp queue is ordered
\* oldest-first and never longer than m in every reachable state, and entries
\* leave it only by the front purge in acquire, never when a call releases its
\* permit or returns.
C22_QueueDiscipline ==
    []QueueOrderedAndBounded /\ [][QueueShrinksOnlyByPurge]_vars

\* C22 witness: a full queue of two different timestamps from which an
\* earlier admission has been purged, while a call has returned.
C22_Witness ==
    /\ timestamps # None
    /\ max_requests = 2
    /\ Len(unwrap(timestamps)) = 2
    /\ unwrap(timestamps)[1] < unwrap(timestamps)[2]
    /\ \E p \in Calls : admitAt[p] # None /\ ~InQueue(unwrap(admitAt[p])) /\ pc[p] = "done"

\* C23: the rate limiter only delays.  With max_requests >= 1 (or no window
\* cap) and concurrency_cap >= 1 (or no concurrency cap), when time advances,
\* every delegate call returns and scheduling is fair (FairRL), every call of
\* translate / translate_vec that was made reaches the delegate and returns.
\* A call made is made once and a call that returned stays returned, so this
\* is: from some point on every call is either not made or has returned, with
\* the delegate entered (startAt) and its result handed back.
AllCallsReturned ==
    \A p \in Calls :
        /\ pc[p] \in {"idle", "done"}
        /\ pc[p] = "done" => startAt[p] # None /\ result[p] # None

C24_SinglePathKeepsOutput ==
    (/\ stPc = "done"
     /\ stMethod = "translate"
     /\ stFrom # Some(stTo)
     /\ stDelegate # None
     /\ unwrap(stDelegate).ok)
    => LET out == unwrap(stDelegate)
           res == unwrap(stResult)
       IN  /\ stResult # None
           /\ res.ok
           /\ res.lang = out.lang
           /\ res.text = IF is_valuable_text(out.text)
                         THEN clean_translation_output(stQuery, out.text, stTo)
                         ELSE out.text

\* C24 witness: the delegate answered " " (no value) with lang Japanese to the
\* query "Ab"; " " and Japanese are returned
C24_Witness ==
    /\ stPc = "done"
    /\ stMethod = "translate"
    /\ stFrom # Some(stTo)
    /\ stQuery = <<"A", "b">>
    /\ stDelegate = Some(Ok(<<" ">>, Some("Japanese")))
    /\ stResult = Some(Ok(<<" ">>, Some("Japanese")))


\* p repeated and cut to n characters
Tiled(p, n) == [j \in 1..n |-> p[((j - 1) % Len(p)) + 1]]
\* the lengths k, 1 <= k <= |s| / 2, of the prefixes of s that tile s
TilingLengths(s) ==
    {k \in 1..(Len(s) \div 2) : Tiled(SubSeq(s, 1, k), Len(s)) = s}
IsPrefix(p, s) == Len(p) <= Len(s) /\ SubSeq(s, 1, Len(p)) = p

\* C25: repeating_sequence(s) returns the shortest prefix p of s with
\* 1 <= |p| <= |s| / 2 such that p repeated and cut to |s| characters equals
\* s, and s itself when there is none (so for every s of length 0 or 1); the
\* result is always a prefix of s.
C25_ShortestTilingPrefix ==
    (fnName = "repeating_sequence" /\ fnRet # None) =>
        LET s == fnArg[1]
            res == unwrap(fnRet)
            ks == TilingLengths(s)
        IN  /\ IsPrefix(res, s)
            /\ ks = {} => res = s
            /\ Len(s) <= 1 => res = s
            /\ ks # {} =>
                  /\ Len(res) \in ks
                  /\ \A k \in ks : Len(res) <= k

\* C25 witness: "cDcDc" has the unit "cD", with a cut last repetition
C25_Witness ==
    /\ fnName = "repeating_sequence"
    /\ fnArg = << <<"c", "D", "c", "D", "c">> >>
    /\ fnRet = Some(<<"c", "D">>)


\* C26: clean_translation_output is total: for every query and translation,
\* the empty ones included, it returns a string and does not panic.  The
\* repetition branch is not entered with a repeating unit of no characters,
\* so line 88 does not divide by zero.
C26_NeverPanics ==
    (fnName = "clean_translation_output" /\ fnRet # None) =>
        /\ unwrap(fnRet) # PANIC
        /\ \A j \in 1..Len(unwrap(fnRet)) : unwrap(fnRet)[j] \in DOMAIN CodePoint
        /\ CorrectionFires => chars_count(RepeatingUnit) >= 1

\* C26 witness: a translation of whitespace only is cleaned to the empty
\* text, whose unit is empty; with the query "Ab" the branch is not entered
\* and the empty text is returned
C26_Witness ==
    /\ fnName = "clean_translation_output"
    /\ fnArg[1] = <<"A", "b">>
    /\ fnArg[2] = <<" ">>
    /\ RepeatingUnit = <<>>
    /\ ~CorrectionFires
    /\ fnRet = Some(<<>>)


\* C27: a load request for a variant that is already resident returns
\* success without a download or a construction and leaves the resident set
\* unchanged; in single-loaded mode too, where it evicts nothing.
C27_ResidentLoadIsNoOp ==
    [][\A t \in Tasks :
          (/\ mPc[t] = "custom_load"
           /\ mPc'[t] # "custom_load"
           /\ mCall[t].name \in keys(loaded_models)) =>
              /\ mPc'[t] = "lookup"
              /\ loaded_models' = loaded_models
              /\ mLog' = Append(mLog, LogEntry("load", mCall[t].name, TRUE, FALSE))]_vars

\* C27 witness: in single-loaded mode a variant was built, a second request
\* for it returned without a construction, and it is still resident
C27_Witness ==
    /\ single_loaded
    /\ Len(mLog) = 2
    /\ mLog[1].op = "load" /\ mLog[1].built
    /\ mLog[2] = LogEntry("load", mLog[1].name, TRUE, FALSE)
    /\ keys(loaded_models) = {mLog[1].name}


\* C28: while a translate call holds the read lease on the resident set, from
\* the lookup until inference finishes, no insert, drain or unload modifies
\* the set; several translate calls may hold read leases at the same time; a
\* writer is never active together with a reader or with another writer.
C28_LeasesExclude ==
    /\ [](write_lease # {} =>
             /\ read_leases = {}
             /\ Cardinality(write_lease) = 1)
    /\ [][read_leases # {} => loaded_models' = loaded_models]_vars
    /\ [][(\E t \in Tasks : mPc[t] \in {"custom_load", "lookup"} /\ mPc'[t] # mPc[t])
             => write_lease = {}]_vars

\* C28 witness: two translate calls hold read leases on a resident model while
\* a third call, which has built the other variant, waits to insert it
C28_Witness ==
    /\ Cardinality(read_leases) = 2
    /\ \A t \in read_leases : contains_key(loaded_models, mCall[t].name)
    /\ \E t \in Tasks :
          /\ mPc[t] = "insert"
          /\ ~contains_key(loaded_models, mCall[t].name)


\* the calls of translate_vec for a direction the backend does not support
UnsupportedCall(c) ==
    \/ /\ c.op = "translate_vec"
       /\ ~(\/ c.from = Some("English") /\ c.to = "Japanese"
            \/ c.from = Some("Japanese") /\ c.to = "English")
    \/ /\ c.op = "Sugoi translate_vec"
       /\ ~(c.from = Some("Japanese") /\ c.to = "English")

\* C29: translate_vec for an unsupported direction (JParaCrawl: anything
\* other than English -> Japanese or Japanese -> English, from = None
\* included; Sugoi: anything other than Japanese -> English) fails with
\* UnknownLanguageGroup before any download, construction or lock write: the
\* call has returned the error at its first step, which leaves the resident
\* set unchanged and loads nothing.
C29_UnsupportedDirectionFailsFirst ==
    /\ [](\A t \in Tasks :
             UnsupportedCall(mCall[t]) =>
                 /\ mPc[t] = "done"
                 /\ mResult[t] = Some("UnknownLanguageGroup"))
    /\ [][\A t \in Tasks :
             (mPc[t] = "idle" /\ UnsupportedCall(mCall'[t])) =>
                 /\ loaded_models' = loaded_models
                 /\ mLog' = mLog]_vars

\* C29 witness: with a model resident, JParaCrawl was asked to translate to
\* Japanese without a source language and Sugoi from English to Japanese;
\* both failed and the model is still resident
C29_Witness ==
    /\ loaded_models # {}
    /\ \E t, u \in Tasks :
          /\ mCall[t] = [op |-> "translate_vec", name |-> "",
                         from |-> None, to |-> "Japanese"]
          /\ mResult[t] = Some("UnknownLanguageGroup")
          /\ mCall[u] = [op |-> "Sugoi translate_vec", name |-> "",
                         from |-> Some("English"), to |-> "Japanese"]
          /\ mResult[u] = Some("UnknownLanguageGroup")


\* the calls that are past the window loop of acquire
PastWindow == {p \in Calls : pc[p] \in {"sem", "delegate", "drop", "done"}}
PermitHolders == {p \in Calls : permit[p]}

\* C30: every call through the RateLimiter, translate or translate_vec alike
\* (acquire takes no argument, so whatever the batch), pushes exactly one
\* timestamp and holds exactly one permit: a call has pushed exactly when it
\* is past the window loop, the step that lets it past appends one timestamp
\* to the purged queue and no other step lengthens the queue; a call holds a
\* unit of the pool exactly while it is in the delegate, and the units held
\* and the units left add up to the cap.  Both methods use one queue and one
\* pool.
C30_OneTimestampOnePermit ==
    /\ [](timestamps # None =>
             \A p \in Calls : admitAt[p] # None <=> p \in PastWindow)
    /\ [](concurrent_limit # None =>
             /\ \A p \in Calls : permit[p] <=> pc[p] \in {"delegate", "drop"}
             /\ unwrap(semaphore) + Cardinality(PermitHolders) = unwrap(concurrent_limit))
    /\ [][timestamps # None =>
             LET admitted == {p \in Calls : pc[p] = "window" /\ pc'[p] = "sem"}
             IN  IF admitted = {}
                 THEN Len(unwrap(timestamps')) <= Len(unwrap(timestamps))
                 ELSE /\ Cardinality(admitted) = 1
                      /\ unwrap(timestamps') =
                            Append(Purge(unwrap(timestamps), now, window), now)]_vars

\* C30 witness: a translate call and a translate_vec call have each one
\* timestamp in the same queue; the one admitted first holds the only permit
\* and the other waits for it
C30_Witness ==
    /\ timestamps # None
    /\ concurrent_limit = Some(1)
    /\ \E p, q \in Calls :
          /\ MethodOf(p) = "translate"
          /\ MethodOf(q) = "translate_vec"
          /\ admitAt[p] # None /\ admitAt[q] # None
          /\ Len(unwrap(timestamps)) = 2
          /\ unwrap(timestamps) = <<unwrap(admitAt[q]), unwrap(admitAt[p])>>
          /\ pc[p] = "sem" /\ ~permit[p]
          /\ pc[q] = "delegate" /\ permit[q]
          /\ semaphore = Some(0)


\* C31: a RateLimiter built with a window cap of max_requests = 0 admits no
\* call.  acquire finds the queue empty and full at once, computes no wait
\* and retries without sleeping: the queue stays empty, a call that was made
\* is at the lock or in the loop body, never asleep, never at the semaphore
\* or in the delegate, and never returns; each pass through the loop body
\* goes back to the lock at the same instant.
C31_ZeroCapAdmitsNothing ==
    /\ []((timestamps # None /\ max_requests = 0) =>
             /\ timestamps = Some(<<>>)
             /\ \A p \in Calls :
                   /\ pc[p] \in {"idle", "lock", "window"}
                   /\ wakeAt[p] = None
                   /\ admitAt[p] = None
                   /\ startAt[p] = None
                   /\ ~permit[p]
                   /\ result[p] = None)
    /\ [][(timestamps # None /\ max_requests = 0) =>
             \A p \in Calls :
                 (pc[p] = "window" /\ pc'[p] # "window") =>
                     pc'[p] = "lock" /\ now' = now /\ mutex' = None]_vars

\* C31 witness: with max_requests = 0 every call was made, the clock has
\* reached the horizon, and a call is in the loop body once more
C31_Witness ==
    /\ timestamps = Some(<<>>)
    /\ max_requests = 0
    /\ now = MaxTime
    /\ \A p \in Calls : pc[p] \in {"lock", "window"}
    /\ \E p \in Calls : pc[p] = "window" /\ mutex = Some(p)


(***************************************************************************)
(* Properties of the MBart50Translator                                     *)
(***************************************************************************)

\* C32: the source-language token the tokenizer prepends while it encodes a
\* call's queries is the code of the source language passed to that call,
\* for every interleaving of concurrent translate_vec calls with different
\* source languages on one instance.
C32_TokenIsCallersSource ==
    \A t \in Tasks :
        \A i \in 1..Len(mbTokens[t]) :
            mbTokens[t][i] = to_mbart_50(unwrap(mbCall[t].from))

=============================================================================
